---- MODULE Spec2Model ----
(***************************************************************************)
(* State-machine model of the audio recorder plugin (src/main.ts): the     *)
(* transcription queue, the recording life cycle around it, and the pure   *)
(* WAV/resampling arithmetic.                                              *)
(*                                                                         *)
(* One action is one event-loop task of the plugin.  A task that runs a    *)
(* consume loop synchronously through several chunks is split at the loop  *)
(* head; while a loop is at its head (pc = "loop") no other task runs      *)
(* (Boundary), so the split adds no interleaving.                          *)
(***************************************************************************)
EXTENDS Integers, Sequences, FiniteSets, TLC

\* ------------------------------------------------------------------ bounds
MaxChunks  == 3   \* chunks enqueued in one behaviour of Spec
LiveChunks == 2   \* chunks enqueued in one behaviour of FairSpec
MaxSamples == 12  \* samples received in one transcription run
MaxRec     == 1   \* startRecording invocations in one behaviour
MaxWait    == 2   \* stopTranscription calls polling for the drain at a time
RecIds     == 2   \* identifiers for recorders, audio contexts and windows
MaxLen     == 6   \* samples in a buffer given to createWavFile
MaxRate    == 3   \* capture and target sample rates, in units of RateUnit
RateUnit   == 8000 \* samples per second in one unit of rate
MaxSaves   == 3   \* saveData calls recorded in one behaviour
MaxNotes   == 1   \* notes the user can make active
SessionRecs == 2  \* startRecording invocations in a behaviour of RecSpec, NoteSpec
MaxChannels == 3  \* channels of a decoded recording

\* ------------------------------------------------------- program constants
\* audio rates are scaled down: 2 stands for the device rate of the context
DeviceRate   == 2   \* audioContext.sampleRate
DefaultRate  == 3   \* sampleRate field initialiser (44100)
BlockSize    == 3   \* ScriptProcessor buffer size (4096)
ChunkSeconds == 2   \* seconds of audio per chunk
\* a MediaStreamAudioDestinationNode's stream carries one audio track
destinationTracks == 1

\* ------------------------------------------------------------------ strings
\* A string is a sequence of characters.  "#" stands for the marker
\* "[BLANK_AUDIO]" written by the recognizer.
RawOutputs ==
    { <<"#">>, <<"a">>, <<"A", " ">>, <<" ", "b">> }

RECURSIVE trimStart(_)
trimStart(s) ==
    IF s # <<>> /\ Head(s) = " " THEN trimStart(Tail(s)) ELSE s

RECURSIVE trimEnd(_)
trimEnd(s) ==
    IF s # <<>> /\ s[Len(s)] = " " THEN trimEnd(SubSeq(s, 1, Len(s) - 1)) ELSE s

trim(s) == trimEnd(trimStart(s))

toLowerCase(s) ==
    IF s = <<>> THEN <<>>
    ELSE [i \in 1..Len(s) |-> IF s[i] = "A" THEN "a" ELSE s[i]]

removeBlankAudio(s) == SelectSeq(s, LAMBDA c : c # "#")

\* the text read from the recognizer's output file, as the code cleans it
readOutput(raw) == trim(removeBlankAudio(trim(raw)))

\* ---------------------------------------------------------------- variables
VARIABLES
    \* plugin fields
    isTranscribing, transcriptionProcessor, transcriptionBuffer,
    transcriptionChunkIndex, transcriptionText, transcriptionQueue,
    isProcessingQueue, lastTranscriptionText,
    recorder, audioContext, controlWindow, sampleRate,
    \* settings, the plugin's data file, and the saveData calls made
    settings, stored, saves,
    \* objects of the host: MediaRecorders, audio contexts, windows, files
    mediaRecorders, closedContexts, openWindows, tempFiles,
    \* running async invocations
    workers, stopWaiters, starts, handlers, loaded,
    \* observations: what the last completed chunk did, what was saved
    lastResult, saved,
    \* history: arrival numbering, per-run sample counts, and (session) the
    \* recorder that the last transcription run was started for
    nextChunkId, rxSamples, enqCount, started, completed, contributors,
    resetSince, prevText, session,
    \* media objects: the streams the fields hold, the streams whose tracks
    \* are live, the note that is active and the notes active at each start
    recordingStream, micStream, micGainNode, liveTracks,
    activeFile, activeFileAtStart, noteAtStart,
    \* observation: what the last step of a startRecording did
    lastStart,
    \* the mute flag and the gain value of each microphone gain node
    isMicMuted, gain,
    \* this.electron is set; the accelerators registered with globalShortcut
    electron, shortcuts,
    \* what each onstop handler has passed to saveRecording
    blobs,
    \* what the environment delivers in this behaviour
    budget,
    \* inputs and result of the pure WAV arithmetic
    wav

fieldVars == <<isTranscribing, transcriptionProcessor, transcriptionBuffer,
               transcriptionChunkIndex, transcriptionText, transcriptionQueue,
               isProcessingQueue, lastTranscriptionText>>
recVars   == <<recorder, audioContext, controlWindow, sampleRate,
               mediaRecorders, closedContexts, openWindows, starts, handlers,
               saved, loaded>>
setVars   == <<settings, stored, saves>>
runVars   == <<workers, stopWaiters, tempFiles>>
histVars  == <<nextChunkId, rxSamples, enqCount, started, completed,
               contributors, resetSince, prevText, session>>

mediaVars == <<recordingStream, micStream, micGainNode, gain, liveTracks,
               activeFile, activeFileAtStart, noteAtStart>>

deskVars  == <<isMicMuted, electron, shortcuts, blobs>>

vars == <<fieldVars, recVars, setVars, runVars, histVars, lastResult, wav,
          budget, mediaVars, lastStart, deskVars>>

Recs == 1..RecIds

\* the settings keys of the model and the values the settings tab offers
Keys == {"enableTranscription", "outputFormat", "whisperModel", "muteHotkey"}

Models == {"tiny", "base", "base.en", "small"}

\* accelerators: none, the default "CommandOrControl+Shift+M", another one
Hotkeys == {"", "M", "N"}

Settings ==
    [enableTranscription : BOOLEAN, outputFormat : {"webm", "wav"},
     whisperModel : Models, muteHotkey : Hotkeys]

DEFAULT_SETTINGS ==
    [enableTranscription |-> FALSE, outputFormat |-> "webm",
     whisperModel |-> "base.en", muteHotkey |-> "M"]

\* before onload there is no settings object; no data file reads as null
NoSettings == [k \in {} |-> FALSE]

\* what the data file can hold: any subset of the keys
StoredData == { [k \in D |-> s[k]] : s \in Settings, D \in SUBSET Keys }

enableTranscription == settings.enableTranscription

outputFormat == settings.outputFormat

muteHotkey == settings.muteHotkey

\* no blob: the handler has not called saveRecording
NoBlob == [contents |-> "none", fixed |-> FALSE]

NoItem   == [id |-> 0, seq |-> 0, first |-> 0, len |-> 0]
NoResult == [id |-> 0, kind |-> "none", logged |-> FALSE, errorSent |-> FALSE,
             appended |-> FALSE, updateSent |-> FALSE, notice |-> FALSE,
             text |-> <<>>, prev |-> <<>>, reset |-> FALSE]
NoWav    == [len |-> 0, rate |-> 1, target |-> 1, out |-> -1, reads |-> {},
             bytes |-> <<>>, channels |-> 1, samples |-> <<>>, file |-> <<>>]

\* no consume loop is in the middle of a synchronous run
Boundary == \A w \in workers : w.pc # "loop"

NoStart == [rec |-> 0, notices |-> {}, tracks |-> 1, mic |-> "off",
            gain |-> FALSE]

\* a step that completes no chunk and runs no part of startRecording leaves
\* nothing of either to observe
noEvent == lastResult' = NoResult /\ lastStart' = NoStart

\* this.controlWindow && !this.controlWindow.isDestroyed()
windowAlive == controlWindow # 0 /\ controlWindow \in openWindows

\* this.recorder && this.recorder.state === "recording"
isRecording == recorder # 0 /\ mediaRecorders[recorder] = "recording"

\* the plugin's fields after construction
FieldsInit ==
    /\ isTranscribing = FALSE
    /\ transcriptionProcessor = 0
    /\ transcriptionBuffer = 0
    /\ transcriptionChunkIndex = 0
    /\ transcriptionText = <<>>
    /\ transcriptionQueue = <<>>
    /\ isProcessingQueue = FALSE
    /\ lastTranscriptionText = <<>>
    /\ recorder = 0
    /\ audioContext = 0
    /\ controlWindow = 0
    /\ sampleRate = DefaultRate
    /\ mediaRecorders = [k \in Recs |-> "none"]
    /\ closedContexts = {}
    /\ openWindows = {}
    /\ tempFiles = {}
    /\ workers = {}
    /\ stopWaiters = [toggle |-> 0, rec |-> 0]
    /\ starts = [k \in Recs |-> "none"]
    /\ handlers = [k \in Recs |-> "none"]
    /\ loaded = TRUE
    /\ lastResult = NoResult
    /\ saved = <<>>
    /\ nextChunkId = 0
    /\ rxSamples = 0
    /\ enqCount = 0
    /\ started = <<>>
    /\ completed = <<>>
    /\ contributors = <<>>
    /\ resetSince = FALSE
    /\ prevText = <<>>
    /\ session = 0
    /\ recordingStream = 0
    /\ micStream = 0
    /\ micGainNode = 0
    /\ liveTracks = {}
    /\ activeFile = 0
    /\ activeFileAtStart = 0
    /\ noteAtStart = [k \in Recs |-> 0]
    /\ lastStart = NoStart
    /\ isMicMuted = FALSE
    /\ gain = [k \in Recs |-> 1]
    /\ electron = FALSE
    /\ shortcuts = {}
    /\ blobs = [k \in Recs |-> NoBlob]

\* the plugin after construction and onload, its settings loaded from a data
\* file that holds them all
PluginInit ==
    /\ FieldsInit
    /\ settings \in {s \in Settings :
                        /\ s.whisperModel = DEFAULT_SETTINGS.whisperModel
                        /\ s.muteHotkey = DEFAULT_SETTINGS.muteHotkey}
    /\ stored = settings
    /\ saves = 0

Init ==
    /\ PluginInit
    /\ budget = [chunks |-> MaxChunks, recs |-> MaxRec, mic |-> FALSE,
                 faults |-> FALSE, recognizer |-> "any"]
    /\ wav = NoWav

\* ------------------------------------------------------ transcription queue

samplesPerChunk == sampleRate * ChunkSeconds

\* what the recognizer does in this behaviour: anything, or it works and
\* writes the text "a" to the .txt file
RecognizerSetups ==
    IF budget.recognizer = "any" THEN {"nomodel", "python", "spawn"}
    ELSE {"spawn"}

RecognizerExits ==
    IF budget.recognizer = "any" THEN {"exit0", "exitN", "error"}
    ELSE {"exit0"}

RecognizerFiles ==
    IF budget.recognizer = "any" THEN {{}, {"txt"}, {"en.txt"}} ELSE {{"txt"}}

RecognizerOutputs ==
    IF budget.recognizer = "any" THEN RawOutputs ELSE {<<"a">>}

LoopWorker == [pc |-> "loop", item |-> NoItem, idx |-> -1]

inFlight == {w \in workers : w.pc \in {"finding", "running"}}

waiting == stopWaiters.toggle + stopWaiters.rec

\* deduplicateTranscription: "" for an exact repeat of the last appended text
deduplicateTranscription(newText) ==
    IF /\ lastTranscriptionText # <<>>
       /\ trim(toLowerCase(newText)) = trim(toLowerCase(lastTranscriptionText))
    THEN <<>>
    ELSE newText

\* a processTranscriptionQueue that sets the flag and runs no loop
processTranscriptionQueue_FlagOnly ==
    IF isProcessingQueue
    THEN UNCHANGED <<isProcessingQueue, workers>>
    ELSE /\ isProcessingQueue' = TRUE
         /\ UNCHANGED workers

\* processTranscriptionQueue, up to the loop head
processTranscriptionQueue ==
    IF isProcessingQueue
    THEN UNCHANGED <<isProcessingQueue, workers>>
    ELSE /\ isProcessingQueue' = TRUE
         /\ workers' = workers \cup {LoopWorker}

\* a queueTranscription that starts a consume loop for every chunk it is given
queueTranscription_LoopPerChunk(item) ==
    /\ transcriptionQueue' = Append(transcriptionQueue, item)
    /\ isProcessingQueue' = TRUE
    /\ workers' = workers \cup {LoopWorker}

\* queueTranscription: push, and start a consume loop if none is running
queueTranscription(item) ==
    /\ transcriptionQueue' = Append(transcriptionQueue, item)
    /\ IF ~isProcessingQueue
       THEN processTranscriptionQueue
       ELSE UNCHANGED <<isProcessingQueue, workers>>

\* onaudioprocess of the transcription processor: one block of BlockSize samples
AudioCallback ==
    /\ Boundary
    /\ transcriptionProcessor # 0
    /\ transcriptionProcessor \notin closedContexts
    /\ isTranscribing
    /\ rxSamples + BlockSize <= MaxSamples
    /\ nextChunkId < budget.chunks
    /\ LET totalSamples == transcriptionBuffer + BlockSize
           received     == rxSamples + BlockSize
       IN  /\ rxSamples' = received
           /\ IF totalSamples >= samplesPerChunk
              THEN /\ transcriptionBuffer' = totalSamples - samplesPerChunk
                   /\ nextChunkId' = nextChunkId + 1
                   /\ enqCount' = enqCount + 1
                   /\ queueTranscription([id    |-> nextChunkId + 1,
                                          seq   |-> enqCount + 1,
                                          first |-> received - totalSamples + 1,
                                          len   |-> samplesPerChunk])
              ELSE /\ transcriptionBuffer' = totalSamples
                   /\ UNCHANGED <<nextChunkId, enqCount, transcriptionQueue,
                                  isProcessingQueue, workers>>
    /\ UNCHANGED <<isTranscribing, transcriptionProcessor, transcriptionChunkIndex,
                   transcriptionText, lastTranscriptionText, recVars, setVars,
                   stopWaiters, tempFiles, started, completed,
                   contributors, session, resetSince, prevText, wav,
                   budget, deskVars,
                   mediaVars>>
    /\ noEvent

\* a dequeue from the back of the queue
shift_FromBack(q) ==
    [item |-> q[Len(q)], rest |-> SubSeq(q, 1, Len(q) - 1)]

\* this.transcriptionQueue.shift(): the oldest chunk and the queue without it
shift(q) ==
    [item |-> Head(q), rest |-> Tail(q)]

\* a failure that propagates out of the consume loop and ends it
ChunkFails_EndsLoop(w, item, kind, files) ==
    /\ lastResult' = [NoResult EXCEPT !.id = item.id, !.kind = kind,
                                      !.logged = TRUE, !.errorSent = windowAlive,
                                      !.prev = prevText, !.reset = resetSince]
    /\ tempFiles' = files
    /\ workers' = workers \ {w}
    /\ completed' = Append(completed, item.id)
    /\ resetSince' = FALSE
    /\ prevText' = <<>>
    /\ UNCHANGED <<transcriptionText, lastTranscriptionText, contributors,
                   session>>

\* the catch block of transcribeAudioChunk, then back to the loop head
ChunkFails(w, item, kind, files) ==
    /\ lastResult' = [NoResult EXCEPT !.id = item.id, !.kind = kind,
                                      !.logged = TRUE, !.errorSent = windowAlive,
                                      !.prev = prevText, !.reset = resetSince]
    /\ tempFiles' = files
    /\ workers' = (workers \ {w}) \cup {LoopWorker}
    /\ completed' = Append(completed, item.id)
    /\ resetSince' = FALSE
    /\ prevText' = <<>>
    /\ UNCHANGED <<transcriptionText, lastTranscriptionText, contributors,
                   session>>

\* transcribeAudioChunk from the temp WAV to the spawn of the recognizer
PrepareChunk(w, item) ==
    LET idx   == transcriptionChunkIndex
        files == tempFiles \cup {<<idx, "wav">>}
    IN  /\ transcriptionChunkIndex' = idx + 1
        /\ \E env \in RecognizerSetups :
             IF env = "spawn"
             THEN /\ workers' = (workers \ {w}) \cup
                                {[pc |-> "running", item |-> item, idx |-> idx]}
                  /\ tempFiles' = files
                  /\ lastResult' = NoResult
                  /\ UNCHANGED <<completed, resetSince, prevText,
                                 transcriptionText, lastTranscriptionText,
                                 contributors, session>>
             ELSE ChunkFails(w, item, env, files)

\* loop head with a chunk waiting: shift it and start transcribeAudioChunk
TakeChunk(w) ==
    /\ w \in workers /\ w.pc = "loop"
    /\ transcriptionQueue # <<>>
    /\ LET item == shift(transcriptionQueue).item
       IN  /\ transcriptionQueue' = shift(transcriptionQueue).rest
           /\ started' = Append(started, item.id)
           /\ \E pathExists \in BOOLEAN :
                IF pathExists
                THEN PrepareChunk(w, item)
                ELSE /\ workers' = (workers \ {w}) \cup
                                   {[pc |-> "finding", item |-> item, idx |-> -1]}
                     /\ lastResult' = NoResult
                     /\ UNCHANGED <<transcriptionChunkIndex, tempFiles, prevText,
                                    completed, resetSince, transcriptionText,
                                    lastTranscriptionText, contributors, session>>
    /\ UNCHANGED <<isTranscribing, transcriptionProcessor, transcriptionBuffer,
                   isProcessingQueue, recVars, setVars, stopWaiters,
                   nextChunkId, rxSamples, enqCount, wav, budget, deskVars,
                   mediaVars>>
    /\ lastStart' = NoStart

\* a consume loop that ends without clearing isProcessingQueue
LoopExit_FlagKept(w) ==
    /\ w \in workers /\ w.pc = "loop"
    /\ transcriptionQueue = <<>>
    /\ workers' = workers \ {w}
    /\ UNCHANGED <<isTranscribing, transcriptionProcessor, transcriptionBuffer,
                   transcriptionChunkIndex, transcriptionText, transcriptionQueue,
                   isProcessingQueue, lastTranscriptionText, recVars, setVars,
                   stopWaiters, tempFiles, histVars, wav, budget, deskVars,
                   mediaVars>>
    /\ noEvent

\* loop head with the queue empty: the consume loop ends
LoopExit(w) ==
    /\ w \in workers /\ w.pc = "loop"
    /\ transcriptionQueue = <<>>
    /\ isProcessingQueue' = FALSE
    /\ workers' = workers \ {w}
    /\ UNCHANGED <<isTranscribing, transcriptionProcessor, transcriptionBuffer,
                   transcriptionChunkIndex, transcriptionText, transcriptionQueue,
                   lastTranscriptionText, recVars, setVars, stopWaiters, tempFiles,
                   histVars, wav, budget, deskVars, mediaVars>>
    /\ noEvent

\* findWhisperCpp returns
FindDone(w) ==
    /\ Boundary
    /\ w \in workers /\ w.pc = "finding"
    /\ \E found \in IF budget.recognizer = "any" THEN BOOLEAN
                     ELSE {TRUE} :
         IF found
         THEN PrepareChunk(w, w.item)
         ELSE /\ ChunkFails(w, w.item, "nowhisper", tempFiles)
              /\ UNCHANGED transcriptionChunkIndex
    /\ UNCHANGED <<isTranscribing, transcriptionProcessor, transcriptionBuffer,
                   transcriptionQueue, isProcessingQueue, recVars, setVars,
                   stopWaiters, nextChunkId, rxSamples, enqCount, started, wav,
                   budget, deskVars, mediaVars>>
    /\ lastStart' = NoStart

\* the recognizer exited with code 0: read, clean, deduplicate, clean up
OutputRead(w, files) ==
    LET wavPath == <<w.idx, "wav">>
        txtPath == <<w.idx, "txt">>
        enPath  == <<w.idx, "en.txt">>
        actual  == IF txtPath \in files THEN txtPath
                   ELSE IF enPath \in files THEN enPath ELSE txtPath
    IN  /\ workers' = (workers \ {w}) \cup {LoopWorker}
        /\ completed' = Append(completed, w.item.id)
        /\ resetSince' = FALSE
        /\ tempFiles' = files \ {wavPath, actual}
        /\ IF actual \in files
           THEN \E raw \in RecognizerOutputs :
                  LET text    == readOutput(raw)
                      newText == IF text # <<>>
                                 THEN deduplicateTranscription(text) ELSE <<>>
                  IN  /\ prevText' = text
                      /\ IF newText # <<>>
                         THEN /\ transcriptionText' =
                                   transcriptionText \o newText \o <<" ">>
                              /\ lastTranscriptionText' = text
                              /\ contributors' = Append(contributors, w.item.id)
                              /\ UNCHANGED session
                              /\ lastResult' =
                                   [NoResult EXCEPT !.id = w.item.id,
                                       !.kind = "ok", !.appended = TRUE,
                                       !.updateSent = windowAlive,
                                       !.notice = ~windowAlive, !.text = text,
                                       !.prev = prevText, !.reset = resetSince]
                         ELSE /\ lastResult' =
                                   [NoResult EXCEPT !.id = w.item.id,
                                       !.kind = "ok", !.text = text,
                                       !.prev = prevText, !.reset = resetSince]
                              /\ UNCHANGED <<transcriptionText,
                                             lastTranscriptionText, contributors, session>>
           ELSE /\ prevText' = <<>>
                /\ lastResult' =
                     [NoResult EXCEPT !.id = w.item.id, !.kind = "nooutput",
                                      !.logged = TRUE,
                                      !.prev = prevText, !.reset = resetSince]
                /\ UNCHANGED <<transcriptionText, lastTranscriptionText,
                               contributors, session>>

\* the recognizer subprocess closes, or fails to run
ProcessClose(w) ==
    /\ Boundary
    /\ w \in workers /\ w.pc = "running"
    /\ \E ev \in RecognizerExits :
       \E written \in RecognizerFiles :
         LET files == tempFiles \cup {<<w.idx, e>> : e \in written}
         IN  CASE ev = "exit0" -> OutputRead(w, files)
               [] ev = "exitN" -> /\ written = {}
                                  /\ ChunkFails(w, w.item, "exit", files)
               [] OTHER        -> /\ written = {}
                                  /\ ChunkFails(w, w.item, "error", files)
    /\ UNCHANGED <<isTranscribing, transcriptionProcessor, transcriptionBuffer,
                   transcriptionChunkIndex, transcriptionQueue, isProcessingQueue,
                   recVars, setVars, stopWaiters, nextChunkId, rxSamples,
                   enqCount, started, wav, budget, deskVars, mediaVars>>
    /\ lastStart' = NoStart

\* ------------------------------------------------ transcription start / stop

\* startTranscription and startLocalTranscription
startTranscription ==
    IF \/ ~enableTranscription \/ isTranscribing
       \/ ~isRecording
    THEN UNCHANGED <<isTranscribing, transcriptionBuffer, transcriptionChunkIndex,
                     transcriptionText, transcriptionProcessor, rxSamples,
                     enqCount, contributors, session>>
    ELSE /\ isTranscribing' = TRUE
         /\ transcriptionBuffer' = 0
         /\ transcriptionChunkIndex' = 0
         /\ transcriptionText' = <<>>
         /\ transcriptionProcessor' =
                IF audioContext = 0 THEN transcriptionProcessor ELSE audioContext
         /\ rxSamples' = 0
         /\ enqCount' = 0
         /\ contributors' = <<>>
         /\ session' = recorder

\* the end of stopTranscription: the resets after the wait
stopTranscriptionResets ==
    /\ transcriptionBuffer' = 0
    /\ transcriptionQueue' = <<>>
    /\ lastTranscriptionText' = <<>>
    /\ resetSince' = TRUE

\* whether a call of stopTranscription made now enters the polling wait
stopMustWait == Len(transcriptionQueue) > 0

\* stopTranscription up to its first await; kind names the caller to resume
stopTranscription(kind) ==
    /\ isTranscribing' = FALSE
    /\ transcriptionProcessor' = 0
    /\ IF stopMustWait
       THEN /\ stopWaiters' = [stopWaiters EXCEPT ![kind] = @ + 1]
            /\ UNCHANGED <<transcriptionBuffer, transcriptionQueue,
                           lastTranscriptionText, resetSince>>
       ELSE /\ stopTranscriptionResets
            /\ UNCHANGED stopWaiters

\* toggleTranscription, called by the control window's toggle-transcription
ToggleTranscription ==
    /\ Boundary
    /\ openWindows # {}
    /\ IF isTranscribing
       THEN /\ stopMustWait => waiting < MaxWait
            /\ stopTranscription("toggle")
            /\ UNCHANGED <<transcriptionChunkIndex, transcriptionText, rxSamples,
                           enqCount, contributors, session>>
       ELSE /\ startTranscription
            /\ UNCHANGED <<transcriptionQueue, lastTranscriptionText, stopWaiters,
                           resetSince>>
    /\ UNCHANGED <<isProcessingQueue, recVars, setVars, workers, tempFiles,
                   nextChunkId, started, completed, prevText, wav, budget,
                   deskVars, mediaVars>>
    /\ noEvent

\* a stopRecording that calls recorder.stop() whatever the recorder's state
recorderStop_AnyState ==
    IF recorder # 0
    THEN /\ mediaRecorders' = [mediaRecorders EXCEPT ![recorder] = "inactive"]
         /\ handlers' = [handlers EXCEPT ![recorder] = "queued"]
    ELSE UNCHANGED <<mediaRecorders, handlers>>

\* stopRecording after the await: recorder.stop() if recording
recorderStop ==
    IF isRecording
    THEN /\ mediaRecorders' = [mediaRecorders EXCEPT ![recorder] = "inactive"]
         /\ handlers' = [handlers EXCEPT ![recorder] = "queued"]
    ELSE UNCHANGED <<mediaRecorders, handlers>>

\* unregisterGlobalHotkey with this.electron = el: the registered accelerators
\* after it, given those before it
unregisterGlobalHotkey(el, sc) ==
    IF ~el \/ muteHotkey = "" THEN sc ELSE sc \ {muteHotkey}

\* registerGlobalHotkey with this.electron set; ok: globalShortcut.register
\* returns true
registerGlobalHotkey(ok) ==
    shortcuts' = IF muteHotkey = "" THEN shortcuts
                 ELSE unregisterGlobalHotkey(TRUE, shortcuts) \cup
                      (IF ok THEN {muteHotkey} ELSE {})

\* stopRecording up to recorder.stop(), or to the await that suspends it
stopRecordingToAwait ==
    IF isTranscribing
    THEN /\ stopMustWait => waiting < MaxWait
         /\ stopTranscription("rec")
         /\ IF stopMustWait
            THEN UNCHANGED <<mediaRecorders, handlers>>
            ELSE recorderStop
    ELSE /\ recorderStop
         /\ UNCHANGED <<isTranscribing, transcriptionProcessor, transcriptionBuffer,
                        transcriptionQueue, lastTranscriptionText, resetSince,
                        stopWaiters>>

\* stopRecording: unregisterGlobalHotkey follows recorder.stop()
stopRecording ==
    /\ stopRecordingToAwait
    /\ shortcuts' = IF isTranscribing /\ stopMustWait THEN shortcuts
                    ELSE unregisterGlobalHotkey(electron, shortcuts)

\* a poll of stopTranscription's wait loop finds the queue drained
PollDone(kind) ==
    /\ Boundary
    /\ stopWaiters[kind] > 0
    /\ ~(Len(transcriptionQueue) > 0 \/ isProcessingQueue)
    /\ stopWaiters' = [stopWaiters EXCEPT ![kind] = @ - 1]
    /\ stopTranscriptionResets
    /\ IF kind = "rec"
       THEN /\ recorderStop
            /\ shortcuts' = unregisterGlobalHotkey(electron, shortcuts)
       ELSE UNCHANGED <<mediaRecorders, handlers, shortcuts>>
    /\ UNCHANGED <<isTranscribing, transcriptionProcessor, transcriptionChunkIndex,
                   transcriptionText, isProcessingQueue, recorder, audioContext,
                   controlWindow, sampleRate, closedContexts, openWindows, starts,
                   saved, loaded, setVars, workers, tempFiles,
                   nextChunkId, rxSamples, enqCount, started, completed,
                   contributors, session, prevText, wav, budget, mediaVars,
                   isMicMuted, electron, blobs>>
    /\ noEvent

stopUnchanged ==
    /\ UNCHANGED <<transcriptionChunkIndex, transcriptionText, isProcessingQueue,
                recorder, audioContext, controlWindow, sampleRate, closedContexts,
                openWindows, starts, saved, setVars, workers, tempFiles,
                   nextChunkId, rxSamples, enqCount, started, completed,
                   contributors, session, prevText, wav, budget, mediaVars,
                   isMicMuted, electron, blobs>>
    /\ noEvent

\* the control window's stop-recording message
OnStopRecording ==
    /\ Boundary
    /\ openWindows # {}
    /\ stopRecording
    /\ stopUnchanged
    /\ UNCHANGED loaded

\* onunload
Unload ==
    /\ Boundary
    /\ loaded
    /\ loaded' = FALSE
    /\ stopRecordingToAwait
    /\ shortcuts' = unregisterGlobalHotkey(electron, shortcuts)
    /\ stopUnchanged

\* --------------------------------------------------------------- recording

\* the tracks of the streams the fields hold
heldTracks(rs, ms) ==
    {<<"sys", r>> : r \in {rs} \ {0}} \cup {<<"mic", r>> : r \in {ms} \ {0}}

\* stopRecordingStreams applied to the streams rs and ms and the live tracks
\* live: stops the tracks, closes the audio context, drops the recorder
stopStreams(rs, ms, ctx, live) ==
    /\ liveTracks' = live \ heldTracks(rs, ms)
    /\ recordingStream' = 0
    /\ micStream' = 0
    /\ closedContexts' = IF ctx # 0 THEN closedContexts \cup {ctx}
                         ELSE closedContexts
    /\ audioContext' = 0
    /\ recorder' = 0

\* stopRecordingStreams
stopRecordingStreams ==
    stopStreams(recordingStream, micStream, audioContext, liveTracks)

\* closeControlWindow
closeControlWindow ==
    /\ openWindows' = openWindows \ {controlWindow}
    /\ controlWindow' = 0

\* startRecording up to the await of getSources
startRecording ==
    /\ \E k \in Recs :
         /\ k <= budget.recs
         /\ starts[k] = "none"
         /\ \A j \in Recs : j < k => starts[j] # "none"
         /\ activeFileAtStart' = activeFile
         /\ noteAtStart' = [noteAtStart EXCEPT ![k] = activeFile]
         /\ electron' = TRUE
         /\ \E desktopCapturer, ok \in IF budget.faults THEN BOOLEAN ELSE {TRUE} :
              IF desktopCapturer
              THEN /\ starts' = [starts EXCEPT ![k] = "sources"]
                   /\ registerGlobalHotkey(ok)
                   /\ lastStart' = [NoStart EXCEPT !.rec = k]
              ELSE /\ starts' = [starts EXCEPT ![k] = "done"]
                   /\ ok
                   /\ UNCHANGED shortcuts
                   /\ lastStart' = [NoStart EXCEPT !.rec = k,
                                                   !.notices = {"nocapturer"}]
    /\ UNCHANGED <<fieldVars, recorder, audioContext, controlWindow, sampleRate,
                   mediaRecorders, closedContexts, openWindows, handlers, saved,
                   setVars, runVars, histVars, wav, budget, isMicMuted, blobs,
                   recordingStream,
                   micStream, micGainNode, gain, liveTracks, activeFile>>
    /\ lastResult' = NoResult

\* toggleRecording, from the ribbon icon or the command
ToggleRecording ==
    /\ Boundary
    /\ loaded
    /\ IF isRecording
       THEN stopRecording /\ stopUnchanged
       ELSE startRecording
    /\ UNCHANGED loaded

\* the catch block of startRecording
startFailed(k) ==
    /\ starts' = [starts EXCEPT ![k] = "done"]
    /\ stopRecordingStreams
    /\ lastStart' = [NoStart EXCEPT !.rec = k, !.notices = {"startfailed"}]
    /\ UNCHANGED <<controlWindow, sampleRate, mediaRecorders, openWindows,
                   micGainNode, gain>>

\* startRecording from the audio context to the control window, with the
\* streams rs and ms in the fields and the tracks live running
startSetup(k, rs, ms, live, info) ==
    /\ starts' = [starts EXCEPT ![k] = "done"]
    /\ sampleRate' = DeviceRate
    /\ micGainNode' = IF ms # 0 THEN k ELSE micGainNode
    /\ gain' = IF ms # 0 THEN [gain EXCEPT ![k] = 1] ELSE gain
    /\ IF destinationTracks = 0
       THEN /\ stopStreams(rs, ms, k, live)
            /\ lastStart' = [info EXCEPT !.notices = @ \cup {"nofinal"},
                                         !.gain = ms # 0]
            /\ UNCHANGED <<mediaRecorders, controlWindow, openWindows>>
       ELSE /\ recordingStream' = rs
            /\ micStream' = ms
            /\ liveTracks' = live
            /\ audioContext' = k
            /\ recorder' = k
            /\ mediaRecorders' = [mediaRecorders EXCEPT ![k] = "recording"]
            /\ controlWindow' = k
            /\ openWindows' = openWindows \cup {k}
            /\ lastStart' = [info EXCEPT !.notices = @ \cup {"started"},
                                         !.gain = ms # 0]
            /\ UNCHANGED closedContexts

startUnchanged ==
    /\ UNCHANGED <<fieldVars, handlers, saved, loaded, setVars, runVars,
                   histVars, wav, budget, deskVars, activeFile,
                   activeFileAtStart,
                   noteAtStart>>
    /\ lastResult' = NoResult

\* desktopCapturer.getSources returns
SourcesDone(k) ==
    /\ Boundary
    /\ starts[k] = "sources"
    /\ \E res \in {"empty", "ok", "throw"} :
         CASE res = "ok"    -> /\ starts' = [starts EXCEPT ![k] = "system"]
                               /\ lastStart' = [NoStart EXCEPT !.rec = k]
                               /\ UNCHANGED <<recorder, audioContext, controlWindow,
                                              sampleRate, mediaRecorders,
                                              closedContexts, openWindows,
                                              recordingStream, micStream,
                                              micGainNode, gain, liveTracks>>
           [] res = "empty" -> /\ starts' = [starts EXCEPT ![k] = "done"]
                               /\ lastStart' = [NoStart EXCEPT !.rec = k,
                                                  !.notices = {"nosources"}]
                               /\ UNCHANGED <<recorder, audioContext, controlWindow,
                                              sampleRate, mediaRecorders,
                                              closedContexts, openWindows,
                                              recordingStream, micStream,
                                              micGainNode, gain, liveTracks>>
           [] OTHER         -> startFailed(k)
    /\ startUnchanged

\* getUserMedia for the system stream returns
SystemDone(k) ==
    /\ Boundary
    /\ starts[k] = "system"
    /\ \E res \in {"ok", "throw"}, recordMicrophone \in BOOLEAN,
          tracks \in IF budget.faults THEN {0, 1} ELSE {1} :
         LET live == liveTracks \cup {<<"sys", k>>}
             info == [NoStart EXCEPT
                        !.rec = k, !.tracks = tracks,
                        !.notices = IF tracks = 0 THEN {"notracks"} ELSE {}]
         IN  CASE res = "ok" /\ recordMicrophone ->
                    /\ starts' = [starts EXCEPT ![k] = "mic"]
                    /\ recordingStream' = k
                    /\ liveTracks' = live
                    /\ lastStart' = info
                    /\ UNCHANGED <<recorder, audioContext, controlWindow,
                                   sampleRate, mediaRecorders, closedContexts,
                                   openWindows, micStream, micGainNode, gain>>
               [] res = "ok" /\ ~recordMicrophone ->
                    startSetup(k, k, micStream, live, info)
               [] OTHER -> tracks = 1 /\ startFailed(k)
    /\ startUnchanged

\* getUserMedia for the microphone returns or fails
MicDone(k) ==
    /\ Boundary
    /\ starts[k] = "mic"
    /\ \E granted \in IF budget.mic THEN BOOLEAN ELSE {FALSE} :
         IF granted
         THEN startSetup(k, recordingStream, k, liveTracks \cup {<<"mic", k>>},
                         [NoStart EXCEPT !.rec = k, !.mic = "ok"])
         ELSE startSetup(k, recordingStream, micStream, liveTracks,
                         [NoStart EXCEPT !.rec = k, !.mic = "failed",
                                         !.notices = {"micfailed"}])
    /\ startUnchanged

\* saveRecording(blob) up to its first await: the duration fix is applied if
\* the outputFormat setting is "webm"
saveRecordingBlob(contents) ==
    [contents |-> contents, fixed |-> outputFormat = "webm"]

\* recorder.onstop up to its first await
OnStop(k) ==
    /\ Boundary
    /\ handlers[k] = "queued"
    /\ IF outputFormat = "wav"
       THEN /\ handlers' = [handlers EXCEPT ![k] = "converting"]
            /\ UNCHANGED blobs
       ELSE /\ handlers' = [handlers EXCEPT ![k] = "saving"]
            /\ blobs' = [blobs EXCEPT ![k] = saveRecordingBlob("webm")]
    /\ UNCHANGED <<fieldVars, recorder, audioContext, controlWindow, sampleRate,
                   mediaRecorders, closedContexts, openWindows, starts, saved,
                   loaded, setVars, runVars, histVars, wav, budget, mediaVars,
                   isMicMuted, electron, shortcuts>>
    /\ noEvent

\* convertWebMToWAV returns or throws
ConvertDone(k) ==
    /\ Boundary
    /\ handlers[k] = "converting"
    /\ \E decoded \in BOOLEAN :
         IF decoded /\ audioContext # 0
         THEN /\ handlers' = [handlers EXCEPT ![k] = "saving"]
              /\ sampleRate' = DeviceRate
              /\ blobs' = [blobs EXCEPT ![k] = saveRecordingBlob("wav")]
         ELSE /\ handlers' = [handlers EXCEPT ![k] = "failed"]
              /\ UNCHANGED <<sampleRate, blobs>>
    /\ UNCHANGED <<fieldVars, recorder, audioContext, controlWindow,
                   mediaRecorders, closedContexts, openWindows, starts, saved,
                   loaded, setVars, runVars, histVars, wav, budget, mediaVars,
                   isMicMuted, electron, shortcuts>>
    /\ noEvent

\* saveRecording returns or throws; the rest of recorder.onstop
SaveDone(k) ==
    /\ Boundary
    /\ handlers[k] = "saving"
    /\ \E written \in IF budget.faults THEN BOOLEAN ELSE {TRUE} :
         IF written
         THEN /\ handlers' = [handlers EXCEPT ![k] = "done"]
              /\ saved' = Append(saved,
                                 [rec        |-> k,
                                  transcript |-> trim(transcriptionText) # <<>>,
                                  note       |-> activeFileAtStart,
                                  startNote  |-> noteAtStart[k],
                                  textRec    |-> session,
                                  produced   |-> /\ session = k
                                                 /\ contributors # <<>>,
                                  contents   |-> blobs[k].contents,
                                  fixed      |-> blobs[k].fixed,
                                  extension  |-> outputFormat])
              /\ stopRecordingStreams
              /\ closeControlWindow
         ELSE /\ handlers' = [handlers EXCEPT ![k] = "failed"]
              /\ UNCHANGED <<saved, recorder, audioContext, controlWindow,
                             closedContexts, openWindows, recordingStream,
                             micStream, liveTracks>>
    /\ UNCHANGED <<fieldVars, sampleRate, mediaRecorders, starts, loaded, setVars,
                   runVars, histVars, wav, budget, deskVars, micGainNode,
                   gain, activeFile,
                   activeFileAtStart, noteAtStart>>
    /\ noEvent

\* the user closes the control window: its closed handler
WindowClosed(w) ==
    /\ Boundary
    /\ w \in openWindows
    /\ openWindows' = openWindows \ {w}
    /\ controlWindow' = 0
    /\ UNCHANGED <<fieldVars, recorder, audioContext, sampleRate, mediaRecorders,
                   closedContexts, starts, handlers, saved, loaded, setVars,
                   runVars, histVars, wav, budget, deskVars, mediaVars>>
    /\ noEvent

\* the user opens another note, or closes the active one
SwitchNote ==
    /\ Boundary
    /\ \E f \in 0..MaxNotes :
         /\ f # activeFile
         /\ activeFile' = f
    /\ UNCHANGED <<fieldVars, recVars, setVars, runVars, histVars, wav,
                   budget, deskVars,
                   recordingStream, micStream, micGainNode, gain, liveTracks,
                   activeFileAtStart, noteAtStart>>
    /\ noEvent

Next ==
    \/ AudioCallback
    \/ \E w \in workers : TakeChunk(w)
    \/ \E w \in workers : LoopExit(w)
    \/ \E w \in workers : FindDone(w)
    \/ \E w \in workers : ProcessClose(w)
    \/ ToggleTranscription
    \/ \E kind \in {"toggle", "rec"} : PollDone(kind)
    \/ OnStopRecording
    \/ Unload
    \/ ToggleRecording
    \/ \E k \in Recs : SourcesDone(k)
    \/ \E k \in Recs : SystemDone(k)
    \/ \E k \in Recs : MicDone(k)
    \/ \E k \in Recs : OnStop(k)
    \/ \E k \in Recs : ConvertDone(k)
    \/ \E k \in Recs : SaveDone(k)
    \/ \E w \in Recs : WindowClosed(w)

Spec == Init /\ [][Next]_vars

\* The recording life cycle
RecordingNext ==
    \/ OnStopRecording
    \/ Unload
    \/ ToggleRecording
    \/ \E k \in Recs : SourcesDone(k)
    \/ \E k \in Recs : SystemDone(k)
    \/ \E k \in Recs : MicDone(k)
    \/ \E k \in Recs : OnStop(k)
    \/ \E k \in Recs : ConvertDone(k)
    \/ \E k \in Recs : SaveDone(k)
    \/ \E w \in Recs : WindowClosed(w)

\* Several recordings in one run of the host, with a microphone that can be
\* granted, the faults of the host (no capture API, no audio track, a failing
\* save) and a recognizer that works.  One chunk is transcribed: no
\* stopTranscription finds a chunk queued, so none enters its polling wait.
RecInit ==
    /\ PluginInit
    /\ budget = [chunks |-> 1, recs |-> SessionRecs, mic |-> TRUE,
                 faults |-> TRUE, recognizer |-> "works"]
    /\ wav = NoWav

RecNext ==
    \/ AudioCallback
    \/ \E w \in workers : TakeChunk(w)
    \/ \E w \in workers : LoopExit(w)
    \/ \E w \in workers : FindDone(w)
    \/ \E w \in workers : ProcessClose(w)
    \/ ToggleTranscription
    \/ RecordingNext

RecSpec == RecInit /\ [][RecNext]_vars

\* Several recordings while the user moves between notes, with transcription
\* disabled in the settings.
NoteInit ==
    /\ PluginInit
    /\ ~enableTranscription
    /\ budget = [chunks |-> 0, recs |-> SessionRecs, mic |-> FALSE,
                 faults |-> FALSE, recognizer |-> "any"]
    /\ wav = NoWav

NoteNext ==
    \/ SwitchNote
    \/ ToggleTranscription
    \/ RecordingNext

NoteSpec == NoteInit /\ [][NoteNext]_vars

\* The event loop runs every continuation that is ready and every timer that
\* is due; every subprocess that was spawned is assumed to exit.
FairInit ==
    /\ PluginInit
    /\ budget = [chunks |-> LiveChunks, recs |-> MaxRec, mic |-> FALSE,
                 faults |-> FALSE, recognizer |-> "any"]
    /\ wav = NoWav

FairSpec ==
    /\ FairInit /\ [][Next]_vars
    /\ WF_vars(\E w \in workers : TakeChunk(w))
    /\ WF_vars(\E w \in workers : LoopExit(w))
    /\ WF_vars(\E w \in workers : FindDone(w))
    /\ WF_vars(\E w \in workers : ProcessClose(w))
    /\ WF_vars(PollDone("toggle"))
    /\ WF_vars(PollDone("rec"))

\* ---------------------------------------------------------------- settings

\* a merge in which the defaults overwrite the stored values
assign_DefaultsLast(defaults, data) ==
    [k \in DOMAIN defaults \cup DOMAIN data |->
        IF k \in DOMAIN defaults THEN defaults[k] ELSE data[k]]

\* Object.assign({}, defaults, data): the keys of data overwrite the defaults
assign(defaults, data) ==
    [k \in DOMAIN defaults \cup DOMAIN data |->
        IF k \in DOMAIN data THEN data[k] ELSE defaults[k]]

\* the state before onload, with any data file
SettingsInit ==
    /\ FieldsInit
    /\ settings = NoSettings
    /\ stored \in StoredData
    /\ saves = 0
    /\ budget = [chunks |-> 0, recs |-> 0, mic |-> FALSE, faults |-> FALSE,
                 recognizer |-> "any"]
    /\ wav = NoWav

settingsUnchanged ==
    /\ UNCHANGED <<fieldVars, recVars, runVars, histVars, wav, budget, deskVars,
                   mediaVars>>
    /\ noEvent

\* loadSettings, called by onload
LoadSettings ==
    /\ settings = NoSettings
    /\ settings' = assign(DEFAULT_SETTINGS, stored)
    /\ UNCHANGED <<stored, saves>>
    /\ settingsUnchanged

\* saveSettings: saveData(this.settings) overwrites the data file
saveSettings ==
    /\ stored' = settings'
    /\ saves' = saves + 1

\* onChange of a control of the settings tab: assign, then saveSettings
ChangeSetting(key, value) ==
    /\ loaded
    /\ settings # NoSettings
    /\ saves < MaxSaves
    /\ settings' = [settings EXCEPT ![key] = value]
    /\ saveSettings
    /\ settingsUnchanged

SettingsNext ==
    \/ LoadSettings
    \/ \E s \in Settings : \E key \in Keys : ChangeSetting(key, s[key])

SettingsSpec == SettingsInit /\ [][SettingsNext]_vars

\* ------------------------------------------------------- mute and hotkeys

muteUnchanged ==
    /\ UNCHANGED <<fieldVars, recVars, setVars, runVars, histVars, wav, budget,
                   recordingStream, micStream, micGainNode, liveTracks,
                   activeFile, activeFileAtStart, noteAtStart, electron,
                   shortcuts, blobs>>
    /\ noEvent

\* toggleMute, from the command or from the registered global shortcut
ToggleMute ==
    /\ Boundary
    /\ loaded \/ shortcuts # {}
    /\ IF ~isRecording \/ micGainNode = 0
       THEN UNCHANGED <<isMicMuted, gain>>
       ELSE /\ isMicMuted' = ~isMicMuted
            /\ gain' = [gain EXCEPT ![micGainNode] = IF isMicMuted' THEN 0 ELSE 1]
    /\ muteUnchanged

\* the control window's mute-mic message
OnMuteMic ==
    /\ Boundary
    /\ openWindows # {}
    /\ IF micGainNode # 0
       THEN /\ gain' = [gain EXCEPT ![micGainNode] = 0]
            /\ isMicMuted' = TRUE
       ELSE UNCHANGED <<isMicMuted, gain>>
    /\ muteUnchanged

\* the control window's unmute-mic message
OnUnmuteMic ==
    /\ Boundary
    /\ openWindows # {}
    /\ IF micGainNode # 0
       THEN /\ gain' = [gain EXCEPT ![micGainNode] = 1]
            /\ isMicMuted' = FALSE
       ELSE UNCHANGED <<isMicMuted, gain>>
    /\ muteUnchanged

\* Several recordings with a microphone, while the user mutes and unmutes and
\* changes the hotkey and the output format in the settings tab; transcription
\* is disabled in the settings.
DeskInit ==
    /\ PluginInit
    /\ ~enableTranscription
    /\ budget = [chunks |-> 0, recs |-> SessionRecs, mic |-> TRUE,
                 faults |-> FALSE, recognizer |-> "any"]
    /\ wav = NoWav

DeskNext ==
    \/ ToggleMute
    \/ OnMuteMic
    \/ OnUnmuteMic
    \/ \E value \in Hotkeys : ChangeSetting("muteHotkey", value)
    \/ \E value \in {"webm", "wav"} : ChangeSetting("outputFormat", value)
    \/ RecordingNext

DeskSpec == DeskInit /\ [][DeskNext]_vars

\* ------------------------------------------------------ WAV file arithmetic

\* Math.round(n / d) for n >= 0, d > 0: the nearest integer, halves upwards
round(n, d) == (2 * n + d) \div (2 * d)

\* a length that is truncated instead of rounded
resampledLength_Truncated(len, rate, target) == (len * target) \div rate

\* createWavFile: ratio = sampleRate / targetSampleRate and
\* newLength = Math.round(audioData.length / ratio), in exact arithmetic
resampledLength(len, rate, target) == round(len * target, rate)

\* Math.floor(i * ratio)
srcIndexFloor(i, rate, target) == (i * rate) \div target

\* an upper source index that is not clamped to the buffer
srcIndexCeil_Unclamped(floor, len) == floor + 1

\* Math.min(srcIndexFloor + 1, audioData.length - 1)
srcIndexCeil(floor, len) == IF floor + 1 < len - 1 THEN floor + 1 ELSE len - 1

\* the indices of audioData that the interpolation loop reads
sourceReads(len, rate, target) ==
    UNION { { srcIndexFloor(i, rate, target),
              srcIndexCeil(srcIndexFloor(i, rate, target), len) } :
            i \in 0..(resampledLength(len, rate, target) - 1) }

\* DataView.setUint8 of each character code, as writeString does
writeString(codes) == [i \in 1..Len(codes) |-> codes[i] % 256]

\* DataView.setUint32(offset, n, true): four bytes, least significant first
setUint32(n) ==
    << n % 256, (n \div 256) % 256, (n \div 65536) % 256,
       (n \div 16777216) % 256 >>

\* a 16-bit write with the most significant byte first
setUint16_BigEndian(n) == << (n \div 256) % 256, n % 256 >>

\* DataView.setUint16(offset, n, true): two bytes, least significant first
setUint16(n) == << n % 256, (n \div 256) % 256 >>

\* floatTo16BitPCM of silent samples: two bytes for each sample
floatTo16BitPCM(n) == [i \in 1..(2 * n) |-> 0]

\* the bytes createWavFile returns for newLength samples at targetSampleRate
monoWavBytes(newLength, targetSampleRate) ==
    writeString(<<82, 73, 70, 70>>) \o setUint32(36 + newLength * 2) \o
    writeString(<<87, 65, 86, 69>>) \o writeString(<<102, 109, 116, 32>>) \o
    setUint32(16) \o setUint16(1) \o setUint16(1) \o
    setUint32(targetSampleRate) \o setUint32(targetSampleRate * 2) \o
    setUint16(2) \o setUint16(16) \o
    writeString(<<100, 97, 116, 97>>) \o setUint32(newLength * 2) \o
    floatTo16BitPCM(newLength)

\* a reader of the canonical 44-byte header: little-endian fields
getUint32(b, off) ==
    b[off + 1] + 256 * b[off + 2] + 65536 * b[off + 3] + 16777216 * b[off + 4]

getUint16(b, off) == b[off + 1] + 256 * b[off + 2]

parseWavHeader(b) ==
    [riff       |-> SubSeq(b, 1, 4),
     riffSize   |-> getUint32(b, 4),
     channels   |-> getUint16(b, 22),
     sampleRate |-> getUint32(b, 24),
     byteRate   |-> getUint32(b, 28),
     blockAlign |-> getUint16(b, 32),
     bits       |-> getUint16(b, 34),
     dataSize   |-> getUint32(b, 40),
     samples    |-> getUint32(b, 40) \div (getUint16(b, 22) * (getUint16(b, 34) \div 8))]

Rates == {k * RateUnit : k \in 1..MaxRate}

WavInit ==
    /\ PluginInit
    /\ budget = [chunks |-> 0, recs |-> 0, mic |-> FALSE, faults |-> FALSE,
                 recognizer |-> "any"]
    /\ wav \in [len : 0..MaxLen, rate : Rates, target : Rates, out : {-1},
                reads : {{}}, bytes : {<<>>}, channels : 1..MaxChannels,
                samples : {<<>>}, file : {<<>>}]

\* createWavFile(audioData, targetSampleRate) with this.sampleRate = wav.rate
CreateWavFile ==
    /\ wav.out = -1
    /\ wav' = [wav EXCEPT
                 !.out   = resampledLength(wav.len, wav.rate, wav.target),
                 !.reads = sourceReads(wav.len, wav.rate, wav.target),
                 !.bytes = monoWavBytes(
                              resampledLength(wav.len, wav.rate, wav.target),
                              wav.target)]
    /\ UNCHANGED <<fieldVars, recVars, setVars, runVars, histVars, lastResult,
                   budget, deskVars, mediaVars, lastStart>>

\* getChannelData(c) of a decoded buffer of len frames: the samples are named
\* by their channel and frame
getChannelData(c, len) == [i \in 1..len |-> <<c, i>>]

\* interleave(leftChannel, rightChannel)
interleave(leftChannel, rightChannel) ==
    [index \in 1..(Len(leftChannel) + Len(rightChannel)) |->
        IF index % 2 = 1 THEN leftChannel[(index + 1) \div 2]
        ELSE rightChannel[index \div 2]]

\* convertWebMToWAV: the interleaved samples for a buffer of n channels
interleaved(n, len) ==
    IF n = 2 THEN interleave(getChannelData(0, len), getChannelData(1, len))
    ELSE IF n = 1
         THEN interleave(getChannelData(0, len), getChannelData(0, len))
         ELSE interleave(getChannelData(0, len),
                         getChannelData(IF 1 < n - 1 THEN 1 ELSE n - 1, len))

\* a channel count that is left as decoded
numChannels_AsDecoded(n) == n

\* convertWebMToWAV: this.numChannels when writeWavHeader is called
numChannels(n) == IF n = 2 THEN n ELSE 2

\* writeWavHeader(samples) with the fields numChannels and sampleRate
writeWavHeader(samples, channels, rate) ==
    writeString(<<82, 73, 70, 70>>) \o setUint32(36 + Len(samples) * 2) \o
    writeString(<<87, 65, 86, 69>>) \o writeString(<<102, 109, 116, 32>>) \o
    setUint32(16) \o setUint16(1) \o setUint16(channels) \o
    setUint32(rate) \o setUint32(rate * 4) \o
    setUint16(channels * 2) \o setUint16(16) \o
    writeString(<<100, 97, 116, 97>>) \o setUint32(Len(samples) * 2) \o
    floatTo16BitPCM(Len(samples))

\* convertWebMToWAV of a decoded buffer of wav.channels channels, wav.len
\* frames and sample rate wav.rate
ConvertWebMToWAV ==
    /\ wav.file = <<>>
    /\ wav' = [wav EXCEPT
                 !.samples = interleaved(wav.channels, wav.len),
                 !.file    = writeWavHeader(interleaved(wav.channels, wav.len),
                                            numChannels(wav.channels),
                                            wav.rate)]
    /\ UNCHANGED <<fieldVars, recVars, setVars, runVars, histVars, lastResult,
                   budget, deskVars, mediaVars, lastStart>>

WavNext == CreateWavFile \/ ConvertWebMToWAV

WavSpec == WavInit /\ [][WavNext]_vars

\* ------------------------------------------------------------------ claims

Range(f) == {f[i] : i \in DOMAIN f}

IsIncreasing(f) == \A i, j \in DOMAIN f : i < j => f[i] < f[j]

\* C1: at most one transcribeAudioChunk invocation is between its start and
\* its completion, in every reachable state.
C1_SingleInFlight == Cardinality(inFlight) <= 1

C1_Witness ==
    /\ Cardinality(inFlight) = 1
    /\ Len(transcriptionQueue) = 2
    /\ waiting > 0

\* C2: chunks are started and completed in arrival order, a chunk starts only
\* when every chunk enqueued before it has completed, and the texts appended to
\* transcriptionText come from chunks in arrival order.
C2_FifoOrder ==
    /\ IsIncreasing(started)
    /\ IsIncreasing(completed)
    /\ \A b \in Range(started) : \A a \in 1..(b - 1) : a \in Range(completed)
    /\ IsIncreasing(contributors)

C2_Witness ==
    /\ Len(completed) = 3
    /\ Len(contributors) = 3


\* C3: recorder.stop() and the start of saveRecording happen only in a state
\* where the transcription queue is empty and no consume loop is processing.
C3_StopOnlyWhenDrained ==
    [][ (\E k \in Recs :
            \/ mediaRecorders[k] = "recording" /\ mediaRecorders'[k] = "inactive"
            \/ handlers[k] # "saving" /\ handlers'[k] = "saving")
        => (transcriptionQueue = <<>> /\ ~isProcessingQueue) ]_vars

fold(t) == trim(toLowerCase(t))

\* the chunk completed by the last step recognized the same text, after
\* trimming and case-folding, as the chunk processed before it
RepeatsPrevious ==
    /\ lastResult.id # 0
    /\ lastResult.text # <<>>
    /\ fold(lastResult.text) = fold(lastResult.prev)

\* C4: of two consecutively processed chunks with the same text, after
\* trimming and case-folding, the second is not appended to transcriptionText
\* and emits no transcription-update.
C4_RepeatDropped ==
    RepeatsPrevious => (~lastResult.appended /\ ~lastResult.updateSent)

FailKinds == {"nowhisper", "nomodel", "python", "exit", "error", "nooutput"}

ChunkFailed == lastResult.kind \in FailKinds

AllProcessed ==
    /\ transcriptionQueue = <<>>
    /\ ~isProcessingQueue
    /\ Range(completed) = 1..nextChunkId

\* C5: a step in which a chunk fails leaves the recorder as it was and the
\* consume loop running, no queued chunk is lost, and from there every chunk
\* enqueued is eventually processed and isProcessingQueue cleared.
C5_FailureDoesNotStopQueue ==
    /\ [][ ChunkFailed' =>
             /\ mediaRecorders' = mediaRecorders
             /\ recorder' = recorder
             /\ isProcessingQueue'
             /\ LoopWorker \in workers'
             /\ {c.id : c \in Range(transcriptionQueue')}
                   = (1..nextChunkId') \ Range(started') ]_vars
    /\ ChunkFailed ~> AllProcessed

C5_Witness ==
    /\ ChunkFailed
    /\ Len(transcriptionQueue) > 0
    /\ isRecording

\* C6: a chunk that fails by a non-zero exit, a missing output file or a
\* missing model is logged and shown to the user.
C6_FailureSurfaced ==
    lastResult.kind \in {"exit", "nooutput", "nomodel"}
        => (lastResult.logged /\ (lastResult.errorSent \/ lastResult.notice))

\* C7: no temporary file remains in the temp directory unless the chunk it
\* belongs to is still in transcribeAudioChunk.
C7_NoTempFilesLeft ==
    \A f \in tempFiles : \E w \in inFlight : w.idx = f[1]

\* C8: once transcription is stopped, the queue eventually is empty, no loop
\* is processing it, and every pending stopTranscription has returned.
C8_DrainTerminates ==
    (~isTranscribing) ~>
        (transcriptionQueue = <<>> /\ ~isProcessingQueue /\ waiting = 0)

C8_Witness ==
    /\ ~isTranscribing
    /\ stopWaiters.rec > 0
    /\ Len(transcriptionQueue) > 0
    /\ inFlight # {}

\* C9: while transcribing, every chunk has 2 * sampleRate samples, the chunks
\* enqueued are floor(samples received / (2 * sampleRate)), the remainder is in
\* the buffer, and each chunk starts where the one before it ended.
C9_ChunkPerTwoSeconds ==
    isTranscribing =>
        /\ enqCount = rxSamples \div samplesPerChunk
        /\ transcriptionBuffer = rxSamples % samplesPerChunk
        /\ \A c \in Range(transcriptionQueue) \cup {w.item : w \in inFlight} :
             /\ c.len = samplesPerChunk
             /\ c.first = (c.seq - 1) * samplesPerChunk + 1

\* C10, as stated: len samples at capture rate A resampled to target rate B
\* give round(len * A / B) samples.
C10_LengthTimesAOverB ==
    wav.out # -1 =>
        /\ 2 * wav.out * wav.target <= 2 * wav.len * wav.rate + wav.target
        /\ 2 * wav.len * wav.rate + wav.target < 2 * (wav.out + 1) * wav.target

\* C10, amended: len samples at capture rate A resampled to target rate B
\* give round(len * B / A) samples, the nearest integer to len * B / A with
\* halves rounded upwards.
C10_LengthTimesBOverA ==
    wav.out # -1 =>
        /\ 2 * wav.out * wav.rate <= 2 * wav.len * wav.target + wav.rate
        /\ 2 * wav.len * wav.target + wav.rate < 2 * (wav.out + 1) * wav.rate

C10_Witness ==
    /\ wav.out # -1
    /\ wav.rate = 3 * RateUnit /\ wav.target = 2 * RateUnit /\ wav.len = 5
    /\ wav.out = 3

\* C11: createWavFile of N samples at capture rate R with target rate R gives
\* 44 + 2N bytes whose header reads back as N samples, rate R, 1 channel,
\* 16 bits, data size 2N and RIFF size 36 + 2N.
C11_MonoHeaderRoundTrip ==
    (wav.out # -1 /\ wav.rate = wav.target) =>
        LET h == parseWavHeader(wav.bytes)
        IN  /\ Len(wav.bytes) = 44 + 2 * wav.len
            /\ h.samples = wav.len
            /\ h.sampleRate = wav.rate
            /\ h.channels = 1
            /\ h.bits = 16
            /\ h.dataSize = 2 * wav.len
            /\ h.riffSize = 36 + 2 * wav.len

C11_Witness ==
    /\ wav.out # -1
    /\ wav.rate = 2 * RateUnit /\ wav.target = 2 * RateUnit
    /\ wav.len = 5
    /\ parseWavHeader(wav.bytes).sampleRate = 2 * RateUnit
    /\ Len(wav.bytes) = 54

\* C20: for a buffer of len >= 1 samples, every index of the source buffer
\* that the interpolation reads lies in 0..len-1.
C20_ReadsInsideBuffer ==
    (wav.out # -1 /\ wav.len >= 1) => wav.reads \subseteq 0..(wav.len - 1)

C20_Witness ==
    /\ wav.out = 3
    /\ wav.len = 2 /\ wav.rate = 2 * RateUnit /\ wav.target = 3 * RateUnit
    /\ wav.reads = {0, 1}

\* C15: a step that sets transcriptionChunkIndex back to 0 (startTranscription
\* taking effect) starts from a state where transcriptionQueue is empty and no
\* chunk is in flight.
C15_IndexResetWhenDrained ==
    [][ (~isTranscribing /\ isTranscribing' /\ transcriptionChunkIndex' = 0)
        => (transcriptionQueue = <<>> /\ ~isProcessingQueue /\ inFlight = {})
      ]_vars

\* C19: a chunk with recognized text is appended unless the chunk processed
\* immediately before it produced the same text after trimming and
\* case-folding; a preceding chunk that was blank or failed counts as
\* different.
C19_DroppedOnlyAfterSameText ==
    (lastResult.kind = "ok" /\ lastResult.text # <<>>
        /\ fold(lastResult.text) # fold(lastResult.prev))
    => lastResult.appended

C12_UnavailableAborts ==
    (lastStart.rec # 0 /\
        ("nocapturer" \in lastStart.notices \/ lastStart.tracks = 0))
    => /\ lastStart.notices \cap {"nocapturer", "notracks"} # {}
       /\ mediaRecorders[lastStart.rec] = "none"
       /\ recorder # lastStart.rec

\* a step that ends the start attempt k without a recording, or that ends the
\* onstop handler of recording k
pathEnds(k) ==
    \/ starts[k] # "done" /\ starts'[k] = "done" /\ mediaRecorders'[k] = "none"
    \/ handlers[k] \notin {"done", "failed"} /\ handlers'[k] \in {"done", "failed"}

\* C13: when a start attempt or a recording ends, the tracks of its system and
\* microphone streams are stopped, its audio context is closed, and the fields
\* recordingStream, micStream, audioContext and recorder no longer hold its
\* objects.
C13_ResourcesReleased ==
    [][ \A k \in Recs : pathEnds(k) =>
          /\ liveTracks' \cap {<<"sys", k>>, <<"mic", k>>} = {}
          /\ mediaRecorders'[k] # "none" => k \in closedContexts'
          /\ recordingStream' # k /\ micStream' # k
          /\ audioContext' # k /\ recorder' # k ]_vars

\* C14: a saved recording has a transcript file exactly if the transcription
\* run of that same recording appended text.
C14_TranscriptFromOwnSession ==
    \A i \in DOMAIN saved :
        /\ saved[i].transcript <=> saved[i].produced
        /\ saved[i].transcript => saved[i].textRec = saved[i].rec

\* C16: the embed link of a saved recording is appended to the note that was
\* active when that recording's start was requested (0: to none).
C16_EmbeddedInStartNote ==
    \A i \in DOMAIN saved : saved[i].note = saved[i].startNote

\* C18: a start whose microphone request fails shows the notice, reaches the
\* recording state, leaves micStream null and creates no microphone gain node.
C18_MicFailureDegrades ==
    lastStart.mic = "failed" =>
        /\ "micfailed" \in lastStart.notices
        /\ mediaRecorders[lastStart.rec] = "recording"
        /\ micStream = 0
        /\ ~lastStart.gain

\* the number of samples written for each frame of the decoded buffer
writtenPerFrame(samples, len) == Len(samples) \div len

\* C21: the file convertWebMToWAV returns for 1, 2 or more decoded channels
\* has a 44-byte header followed by 2 bytes for each interleaved sample; the
\* declared channel count is the number of samples written for each frame,
\* BlockAlign = channels * 2, ByteRate = SampleRate * BlockAlign, the data size
\* is 2 bytes for each interleaved sample and the RIFF size is 36 + data size.
C21_RecordingHeaderConsistent ==
    wav.file # <<>> =>
        LET h == parseWavHeader(wav.file)
        IN  /\ Len(wav.file) = 44 + 2 * Len(wav.samples)
            /\ wav.len > 0 => h.channels = writtenPerFrame(wav.samples, wav.len)
            /\ h.blockAlign = h.channels * 2
            /\ h.sampleRate = wav.rate
            /\ h.byteRate = h.sampleRate * h.blockAlign
            /\ h.dataSize = 2 * Len(wav.samples)
            /\ h.riffSize = 36 + h.dataSize
            /\ h.bits = 16

C21_Witness ==
    /\ wav.file # <<>>
    /\ wav.channels = 3
    /\ wav.len = 2
    /\ wav.samples = << <<0, 1>>, <<1, 1>>, <<0, 2>>, <<1, 2>> >>
    /\ parseWavHeader(wav.file).channels = 2
    /\ Len(wav.file) = 52

\* C23: between event-loop tasks, a non-empty transcriptionQueue means that
\* isProcessingQueue is true and a consume loop is active, and
\* isProcessingQueue is true only while a consume loop is active.
C23_NoChunkStranded ==
    Boundary =>
        /\ transcriptionQueue # <<>> => (isProcessingQueue /\ workers # {})
        /\ isProcessingQueue => workers # {}

C23_Witness ==
    /\ Boundary
    /\ Len(transcriptionQueue) = 2
    /\ isProcessingQueue
    /\ \E w \in workers : w.pc = "running"
    /\ ~isTranscribing

\* how far the onstop handler of a recorder has come
handlerRank(h) ==
    CASE h = "none"       -> 0
      [] h = "queued"     -> 1
      [] h = "converting" -> 2
      [] h = "saving"     -> 3
      [] OTHER            -> 4

\* C26: recorder.stop() is called at most once on a recorder and saveRecording
\* runs at most once for it: a stopped recorder is not stopped again, its
\* onstop handler is queued only by the one stop and never returns to an
\* earlier point, whatever stop requests arrive.
C26_StoppedAndSavedOnce ==
    [][ \A k \in Recs :
          /\ mediaRecorders[k] = "inactive" => mediaRecorders'[k] = "inactive"
          /\ handlers'[k] = "queued" /\ handlers[k] # "queued"
                => mediaRecorders[k] = "recording" /\ handlers[k] = "none"
          /\ handlerRank(handlers'[k]) >= handlerRank(handlers[k]) ]_vars

C26_Witness ==
    /\ stopWaiters.rec > 0
    /\ ~loaded
    /\ handlers[1] = "done"
    /\ Len(saved) = 1

\* C29: transcription runs only while a recording is active: isTranscribing
\* becomes true only in a state where enableTranscription is set, no
\* transcription is running and the recorder is recording, and whenever
\* isTranscribing is true the recorder exists and is in state recording.
C29_TranscribingOnlyWhileRecording ==
    [][ /\ (~isTranscribing /\ isTranscribing')
            => (enableTranscription /\ isRecording)
        /\ isTranscribing' => (recorder' # 0 /\
                                mediaRecorders'[recorder'] = "recording") ]_vars

\* the audio contexts that were created and are not closed
liveContexts == {k \in Recs : mediaRecorders[k] # "none"} \ closedContexts

\* C24: at most one MediaRecorder is recording, at most one audio context is
\* open, and every stream whose tracks are live is held by recordingStream or
\* micStream.
C24_OneRecordingActive ==
    /\ Cardinality({k \in Recs : mediaRecorders[k] = "recording"}) <= 1
    /\ Cardinality(liveContexts) <= 1
    /\ liveTracks \subseteq heldTracks(recordingStream, micStream)

\* C25: the step in which the onstop handler of recording k ends leaves the
\* objects of another recording j that is recording as they are: its tracks
\* live, its audio context open, the recorder field on it, its window open.
C25_FinalizingSparesNext ==
    [][ \A k, j \in Recs :
          (/\ k # j
           /\ handlers[k] = "saving" /\ handlers'[k] = "done"
           /\ mediaRecorders[j] = "recording")
          => /\ liveTracks \cap {<<"sys", j>>, <<"mic", j>>} \subseteq liveTracks'
             /\ j \notin closedContexts'
             /\ recorder = j => recorder' = j
             /\ j \in openWindows => j \in openWindows' ]_vars

\* C22: while a recording is active whose microphone gain node is the one in
\* micGainNode, the gain of that node is 0 exactly if isMicMuted is true, and
\* 1 otherwise.
C22_MuteFlagMatchesGain ==
    (isRecording /\ micGainNode = recorder) =>
        gain[micGainNode] = (IF isMicMuted THEN 0 ELSE 1)

\* C27: a step that ends a startRecording without a recording (no screen
\* sources, no audio track to record, an exception), while no other recording
\* is active, leaves no global shortcut registered.
C27_FailedStartLeavesNoHotkey ==
    (/\ lastStart.rec # 0
     /\ lastStart.notices \cap {"nosources", "nofinal", "startfailed"} # {}
     /\ \A j \in Recs : mediaRecorders[j] # "recording")
    => shortcuts = {}

\* C28: the plugin never holds more than one registered global shortcut, and
\* the step in which stopRecording stops a recorder leaves none registered.
C28_HotkeyUnregisteredAfterStop ==
    [][ /\ Cardinality(shortcuts') <= 1
        /\ (\E k \in Recs : /\ mediaRecorders[k] = "recording"
                             /\ mediaRecorders'[k] = "inactive")
             => shortcuts' = {} ]_vars

\* C30: a saved file that holds WAV bytes has the extension wav and no WebM
\* duration fix; one that holds WebM bytes has the extension webm and the
\* duration fix applied.
C30_ExtensionMatchesContents ==
    \A i \in DOMAIN saved :
        /\ saved[i].contents = "wav"
              => (saved[i].extension = "wav" /\ ~saved[i].fixed)
        /\ saved[i].contents = "webm"
              => (saved[i].extension = "webm" /\ saved[i].fixed)

====
